---------------------------- MODULE Spec2Model ----------------------------
(***************************************************************************)
(* Model of app4.py, the Streamlit image compressor: the size-targeting    *)
(* encoder compress_image, the two batch pipelines process_files and       *)
(* process_zip, the bundle packager create_download_zip, and the part of   *)
(* main / display_results that calls them and stores their result in the   *)
(* session.                                                                *)
(*                                                                         *)
(* Representation.                                                         *)
(*  - A file name is a sequence of tokens: "." is the separator token and  *)
(*    every other token is a dot-free piece of the name, so               *)
(*    <<"photo", ".", "v2", ".", "png">> is photo.v2.png.                  *)
(*  - A decoded image is a record [mode, pix, encodes]: its PIL mode, the  *)
(*    identity of its pixels, and whether the WebP encoder accepts it.     *)
(*  - The bytes written by img.save(format="WEBP", quality=q) are the      *)
(*    record [pix, mode, quality]; their length is EncodedLen.             *)
(*  - Sizes are kept in bytes.  The code divides by 1024 (a float division *)
(*    by a power of two, which is exact), so size_kb <= target_kb is       *)
(*    bytes <= 1024 * target_kb.                                           *)
(***************************************************************************)
EXTENDS Integers, Sequences, FiniteSets, TLC

VARIABLES
    pc,                 \* where the script run is
    session,            \* st.session_state.compressed_files
    session_at_click,   \* history: session when the button was pressed
    selection_type,     \* radio "Files" / "ZIP"
    uploaded_files,     \* the file uploader's list (Files)
    uploaded_zip,       \* the file uploader's archive (ZIP)
    target_kb,          \* the slider
    compressed_files,   \* local of process_files / process_zip
    image_files,        \* local of process_zip
    i,                  \* loop index of the batch loop (enumerate)
    img,                \* local of the batch loop: the image handed to compress_image
    temp_dir,           \* the TemporaryDirectory of process_zip
    temp_files,         \* what the temporary directory holds
    quality,            \* local of compress_image
    buffer,             \* local of compress_image
    size_kb,            \* local of compress_image (in bytes, see above)
    returned,           \* the tuple compress_image returned last
    tried,              \* history: qualities compress_image encoded at, this call
    opened,             \* history: loop indexes Image.open was attempted on
    calls,              \* history: mode of each image passed to compress_image
    errors,             \* st.error reports of the batch loop
    zip_data,           \* display_results: the archive create_download_zip wrote
    downloads           \* display_results: file_name of each per-item button

vars == << pc, session, session_at_click, selection_type, uploaded_files,
           uploaded_zip, target_kb, compressed_files, image_files, i, img,
           temp_dir, temp_files, quality, buffer, size_kb, returned, tried,
           opened, calls, errors, zip_data, downloads >>

(***************************************************************************)
(* Bounds of the model.                                                    *)
(***************************************************************************)
MaxFiles == 3

SeqUpTo(S, n) == UNION { [1..k -> S] : k \in 0..n }

(***************************************************************************)
(* Inputs.                                                                 *)
(***************************************************************************)
\* The slider of main: 10 is its minimum, 45 its default.
Targets == {10, 45}

\* Encoded length in bytes of the pixels `pix` at quality q.
\*   small : always under the smallest target
\*   mid   : exactly q KB, so it sits on the boundary size = target
\*   edge  : q KB and one byte
\*   bumpy : q KB, except that quality 70 happens to encode to 5 KB
EncodedLen(pix, q) ==
    CASE pix = "small" -> 100 * q
      [] pix = "mid"   -> 1024 * q
      [] pix = "edge"  -> 1024 * q + 1
      [] pix = "bumpy" -> IF q = 70 THEN 1024 * 5 ELSE 1024 * q
      [] OTHER         -> 1024 * q

Source(name, decodes, mode, pix, encodes, size) ==
    [name |-> name, decodes |-> decodes, mode |-> mode, pix |-> pix,
     encodes |-> encodes, size |-> size]

\* What a user can upload as an image file.  The uploaders filter by the
\* extension of the name only and Image.open goes by the content, so the
\* mode is that of whatever the file really holds: RGBA and LA (PNG), RGB,
\* PA (a palette TIFF with an alpha band).  b.png is not an image at all
\* and d.PNG is one the WebP encoder rejects (it is too large).
Sources ==
    { Source(<<"photo", ".", "v2", ".", "png">>, TRUE, "RGBA", "mid", TRUE, 200000),
      Source(<<"a", ".", "png">>, TRUE, "RGB", "small", TRUE, 50000),
      Source(<<"a", ".", "jpg">>, TRUE, "LA", "edge", TRUE, 90000),
      Source(<<"b", ".", "png">>, FALSE, "none", "none", FALSE, 300),
      Source(<<"c", ".", "webp">>, TRUE, "PA", "bumpy", TRUE, 120000),
      Source(<<"d", ".", "PNG">>, TRUE, "RGB", "huge", FALSE, 900000) }

\* What an archive can hold besides: a file that is no image by its name.
ZipMembers ==
    Sources \cup { Source(<<"notes", ".", "txt">>, FALSE, "none", "none", FALSE, 10) }

\* The smaller input domain of the specification with repeated runs.
RerunSources ==
    { s \in Sources : s.name \in { <<"photo", ".", "v2", ".", "png">>,
                                   <<"b", ".", "png">> } }

NoZip == [present |-> FALSE, valid |-> FALSE, members |-> <<>>]

\* An uploaded archive: a valid container with its files in the order
\* os.walk yields them, or bytes that are no zip container at all.
Zips(members) ==
    { [present |-> TRUE, valid |-> TRUE, members |-> m] :
        m \in SeqUpTo(members, MaxFiles) }
    \cup { [present |-> TRUE, valid |-> FALSE, members |-> <<>>] }

(***************************************************************************)
(* Values.                                                                 *)
(***************************************************************************)
None == [isNone |-> TRUE, files |-> <<>>]
Some(files) == [isNone |-> FALSE, files |-> files]

\* Python truthiness of session_state.compressed_files (line 131).
Truthy(s) == ~s.isNone /\ s.files # <<>>

NoImage == [mode |-> "none", pix |-> "none", encodes |-> FALSE]
NoBuffer == [pix |-> "none", mode |-> "none", quality |-> 0]
NoReturn == << NoBuffer, 0, 0 >>

\* Image.open on a source that decodes.
Image_open(s) == [mode |-> s.mode, pix |-> s.pix, encodes |-> s.encodes]

\* img.convert(mode)
convert(im, mode) == [im EXCEPT !.mode = mode]

\* Lines 148-149 and 189-190.
normalize(im) == IF im.mode \in {"RGBA", "LA"} THEN convert(im, "RGB") ELSE im

\* img.save(buffer, format="WEBP", quality=quality); buffer.getvalue()
save(im, q) == [pix |-> im.pix, mode |-> im.mode, quality |-> q]

\* buffer.tell() on the freshly written buffer
tell(b) == EncodedLen(b.pix, b.quality)

\* Line 29: while quality > 10
loop_guard_ALT(q) == q >= 10
loop_guard(q) == q > 10

\* Line 33: if size_kb <= target_kb
meets_target_ALT(size, target) == size < 1024 * target
meets_target(size, target) == size <= 1024 * target

\* Line 152 / 193: compressed_files.append(...)
append_result_ALT(list, r) == << r >> \o list
append_result(list, r) == Append(list, r)

(***************************************************************************)
(* File names.                                                             *)
(***************************************************************************)
\* str.lower() on the tokens the model uses.
lower(tok) ==
    CASE tok = "PNG" -> "png"
      [] tok = "JPG" -> "jpg"
      [] OTHER -> tok

\* Line 172: file.lower().endswith(('.png', '.jpg', '.jpeg', '.webp'))
is_image_name(name) ==
    /\ Len(name) >= 2
    /\ name[Len(name) - 1] = "."
    /\ lower(name[Len(name)]) \in {"png", "jpg", "jpeg", "webp"}

\* filename.split('.')[0]: the tokens before the first "."
RECURSIVE split_first(_)
split_first(name) ==
    IF name = <<>> \/ Head(name) = "." THEN <<>>
    ELSE << Head(name) >> \o split_first(Tail(name))

\* A different rule: everything before the last "." (os.path.splitext).
RECURSIVE strip_last(_)
strip_last(name) ==
    IF name = <<>> THEN <<>>
    ELSE IF name[Len(name)] = "." THEN SubSeq(name, 1, Len(name) - 1)
    ELSE IF \E k \in 1..Len(name) : name[k] = "."
         THEN strip_last(SubSeq(name, 1, Len(name) - 1))
         ELSE name

\* Lines 43, 269, 291: f"compressed_{filename.split('.')[0]}.webp"
entry_name_ALT(filename) == << "compressed_" >> \o strip_last(filename) \o << ".webp" >>
entry_name(filename) == << "compressed_" >> \o split_first(filename) \o << ".webp" >>

(***************************************************************************)
(* create_download_zip.  The archive is the sequence of entries in the     *)
(* order they were written: ZipFile.writestr appends an entry and keeps an *)
(* earlier entry of the same name (it only warns about the duplicate).     *)
(***************************************************************************)
\* ZIP_DEFLATED: the payload is stored deflated and inflated when read.
deflate(data) == << "deflate", data >>
inflate(stored) == stored[2]

\* An archive that keeps one entry per name, the later replacing the earlier.
writestr_ALT(zip_file, name, data) ==
    SelectSeq(zip_file, LAMBDA e : e.name # name)
        \o << [name |-> name, stored |-> deflate(data)] >>
\* An archive that puts the new entry first.
writestr_PRE(zip_file, name, data) ==
    << [name |-> name, stored |-> deflate(data)] >> \o zip_file
writestr(zip_file, name, data) ==
    Append(zip_file, [name |-> name, stored |-> deflate(data)])

RECURSIVE write_all(_, _)
write_all(zip_file, results) ==
    IF results = <<>> THEN zip_file
    ELSE write_all(writestr(zip_file, entry_name(Head(results)[1]), Head(results)[2]),
                   Tail(results))

create_download_zip(results) == write_all(<<>>, results)

(***************************************************************************)
(* TemporaryDirectory: leaving the with block removes the directory,       *)
(* whether the block ended normally or by an exception.                    *)
(***************************************************************************)
cleanup_ALT(raised) == IF raised THEN "exists" ELSE "removed"
cleanup(raised) == "removed"

\* Lines 166-167: ZipFile(zip_path, 'r') raises BadZipFile on bytes that are
\* no container; otherwise extractall unpacks every member.
extract_ALT(zip) == "extracted"
extract(zip) == IF zip.valid THEN "extracted" ELSE "raise"

(***************************************************************************)
(* Initial state: the script has rendered once, nothing is stored          *)
(* (lines 50-51), no button was pressed.                                   *)
(***************************************************************************)
Init ==
    /\ pc = "idle"
    /\ session = None
    /\ session_at_click = None
    /\ selection_type = "ZIP"
    /\ uploaded_files = <<>>
    /\ uploaded_zip = NoZip
    /\ target_kb = 45
    /\ compressed_files = <<>>
    /\ image_files = <<>>
    /\ i = 0
    /\ img = NoImage
    /\ temp_dir = "none"
    /\ temp_files = {}
    /\ quality = 0
    /\ buffer = NoBuffer
    /\ size_kb = 0
    /\ returned = NoReturn
    /\ tried = <<>>
    /\ opened = <<>>
    /\ calls = <<>>
    /\ errors = <<>>
    /\ zip_data = <<>>
    /\ downloads = <<>>

locals == << compressed_files, image_files, i, img >>
encoder == << quality, buffer, size_kb, returned, tried >>
tempdir == << temp_dir, temp_files >>
inputs == << selection_type, uploaded_files, uploaded_zip, target_kb >>
history == << opened, calls, errors >>
page == << zip_data, downloads >>

(***************************************************************************)
(* main, lines 108-129: the Compress button is pressed with the widgets'   *)
(* current values.  Only the uploader of the selected input type exists.   *)
(***************************************************************************)
main_click(srcs, members) ==
    /\ pc = "idle"
    /\ \E sel \in {"Files", "ZIP"}, t \in Targets,
          fs \in SeqUpTo(srcs, MaxFiles), z \in Zips(members) \cup {NoZip} :
        /\ sel = "Files" => z = NoZip
        /\ sel = "ZIP" => fs = <<>>
        /\ selection_type' = sel
        /\ target_kb' = t
        /\ uploaded_files' = fs
        /\ uploaded_zip' = z
        /\ pc' = IF sel = "Files" /\ fs # <<>> THEN "files_loop"
                 ELSE IF sel = "ZIP" /\ z.present THEN "zip_enter"
                 ELSE "rendered"
    /\ session_at_click' = session
    /\ compressed_files' = <<>>
    /\ i' = 0
    /\ UNCHANGED << session, image_files, img, tempdir, encoder, history, page >>

(***************************************************************************)
(* The body of the batch loop for the item at index i, lines 139-149 and   *)
(* 180-190: Image.open, the alpha check, and the call of compress_image.   *)
(* A failure of Image.open is caught by the except clause of the loop.     *)
(***************************************************************************)
batch_item(items, loop) ==
    /\ pc = loop
    /\ i < Len(items)
    /\ opened' = Append(opened, i)
    /\ IF ~items[i + 1].decodes
       THEN /\ errors' = Append(errors, items[i + 1].name)
            /\ i' = i + 1
            /\ UNCHANGED << pc, img, calls, encoder >>
       ELSE /\ img' = normalize(Image_open(items[i + 1]))
            /\ calls' = Append(calls, img'.mode)
            /\ quality' = 90
            /\ buffer' = NoBuffer
            /\ size_kb' = 0
            /\ tried' = <<>>
            /\ returned' = NoReturn
            /\ pc' = "compress"
            /\ UNCHANGED << i, errors >>
    /\ UNCHANGED << session, session_at_click, inputs, compressed_files,
                    image_files, tempdir, page >>

process_files_item == batch_item(uploaded_files, "files_loop")

process_zip_item == batch_item(image_files, "zip_loop")

\* The loop the running call of compress_image returns to, and its items.
caller_loop == IF selection_type = "Files" THEN "files_loop" ELSE "zip_loop"
caller_items == IF selection_type = "Files" THEN uploaded_files ELSE image_files

(***************************************************************************)
(* compress_image, lines 29-35: one turn of the while loop.  img.save may  *)
(* raise; the exception leaves compress_image and is caught by the except  *)
(* clause of the batch loop (lines 154-155, 195-196).                      *)
(***************************************************************************)
compress_image_iter ==
    /\ pc = "compress"
    /\ loop_guard(quality)
    /\ IF ~img.encodes
       THEN /\ errors' = Append(errors, caller_items[i + 1].name)
            /\ i' = i + 1
            /\ pc' = caller_loop
            /\ UNCHANGED encoder
       ELSE /\ buffer' = save(img, quality)
            /\ size_kb' = tell(buffer')
            /\ tried' = Append(tried, quality)
            /\ IF meets_target(size_kb', target_kb)
               THEN pc' = "compress_ret" /\ UNCHANGED quality
               ELSE quality' = quality - 5 /\ UNCHANGED pc
            /\ UNCHANGED << i, errors, returned >>
    /\ UNCHANGED << session, session_at_click, inputs, compressed_files, image_files, img, tempdir, opened,
                    calls, page >>

\* Line 29: the loop condition is false, the loop ends without a break.
compress_image_exhausted ==
    /\ pc = "compress"
    /\ ~loop_guard(quality)
    /\ pc' = "compress_ret"
    /\ UNCHANGED << session, session_at_click, inputs, locals, tempdir,
                    encoder, history, page >>

(***************************************************************************)
(* compress_image, lines 36-37, and the caller's lines 151-152 / 192-193:  *)
(* the tuple is returned and the caller appends its result.                *)
(***************************************************************************)
compress_image_return ==
    /\ pc = "compress_ret"
    /\ returned' = << buffer, size_kb, quality >>
    /\ compressed_files' =
           append_result(compressed_files,
                         << caller_items[i + 1].name, returned'[1],
                            caller_items[i + 1].size, returned'[2] >>)
    /\ i' = i + 1
    /\ pc' = caller_loop
    /\ UNCHANGED << session, session_at_click, inputs, image_files, img,
                    tempdir, quality, buffer, size_kb, tried, history, page >>

(***************************************************************************)
(* process_files, line 157, and main, line 120: the list is returned and   *)
(* stored in the session.                                                  *)
(***************************************************************************)
process_files_return ==
    /\ pc = "files_loop"
    /\ i = Len(uploaded_files)
    /\ session' = Some(compressed_files)
    /\ pc' = "rendered"
    /\ UNCHANGED << session_at_click, inputs, locals, tempdir, encoder,
                    history, page >>

(***************************************************************************)
(* process_zip, lines 160-163: the temporary directory is created and the  *)
(* upload written into it.                                                 *)
(***************************************************************************)
process_zip_enter ==
    /\ pc = "zip_enter"
    /\ temp_dir' = "exists"
    /\ temp_files' = { << "uploaded", ".", "zip" >> }
    /\ pc' = "zip_extract"
    /\ UNCHANGED << session, session_at_click, inputs, locals, encoder,
                    history, page >>

(***************************************************************************)
(* process_zip, lines 165-167.  On bytes that are no container the         *)
(* exception leaves the with block (which removes the directory) and       *)
(* process_zip, and ends the script run in main: line 122 assigns nothing  *)
(* and line 131 is not reached.                                            *)
(***************************************************************************)
process_zip_extract ==
    /\ pc = "zip_extract"
    /\ IF extract(uploaded_zip) = "raise"
       THEN /\ temp_dir' = cleanup(TRUE)
            /\ temp_files' = IF temp_dir' = "removed" THEN {} ELSE temp_files
            /\ pc' = "raised"
       ELSE /\ temp_files' = temp_files \cup
                   { uploaded_zip.members[k].name : k \in DOMAIN uploaded_zip.members }
            /\ pc' = "zip_walk"
            /\ UNCHANGED temp_dir
    /\ UNCHANGED << session, session_at_click, inputs, locals, encoder,
                    history, page >>

\* process_zip, lines 169-178: the walk collects the files named as images.
process_zip_walk ==
    /\ pc = "zip_walk"
    /\ image_files' = SelectSeq(uploaded_zip.members, LAMBDA m : is_image_name(m.name))
    /\ compressed_files' = <<>>
    /\ i' = 0
    /\ pc' = "zip_loop"
    /\ UNCHANGED << session, session_at_click, inputs, img, tempdir, encoder,
                    history, page >>

\* process_zip: the loop is over and control leaves the with block.
process_zip_exit ==
    /\ pc = "zip_loop"
    /\ i = Len(image_files)
    /\ temp_dir' = cleanup(FALSE)
    /\ temp_files' = IF temp_dir' = "removed" THEN {} ELSE temp_files
    /\ pc' = "zip_return"
    /\ UNCHANGED << session, session_at_click, inputs, locals, encoder,
                    history, page >>

\* process_zip, line 198, and main, line 122.
process_zip_return ==
    /\ pc = "zip_return"
    /\ session' = Some(compressed_files)
    /\ pc' = "rendered"
    /\ UNCHANGED << session_at_click, inputs, locals, tempdir, encoder,
                    history, page >>

(***************************************************************************)
(* main, lines 131-132, and display_results: the bundle and the per-item   *)
(* download buttons are built from what the session stores.                *)
(***************************************************************************)
display_results ==
    /\ pc = "rendered"
    /\ IF Truthy(session)
       THEN /\ zip_data' = create_download_zip(session.files)
            /\ downloads' = [k \in DOMAIN session.files |->
                                entry_name(session.files[k][1])]
       ELSE UNCHANGED page
    /\ pc' = "done"
    /\ UNCHANGED << session, session_at_click, inputs, locals, tempdir,
                    encoder, history >>

(***************************************************************************)
(* Streamlit runs the script again on the next interaction: the locals of  *)
(* the last run are gone, the session state is kept.                       *)
(***************************************************************************)
rerun ==
    /\ pc \in {"done", "raised"}
    /\ pc' = "idle"
    /\ compressed_files' = <<>>
    /\ image_files' = <<>>
    /\ i' = 0
    /\ img' = NoImage
    /\ temp_dir' = "none"
    /\ temp_files' = {}
    /\ quality' = 0
    /\ buffer' = NoBuffer
    /\ size_kb' = 0
    /\ returned' = NoReturn
    /\ tried' = <<>>
    /\ opened' = <<>>
    /\ calls' = <<>>
    /\ errors' = <<>>
    /\ zip_data' = <<>>
    /\ downloads' = <<>>
    /\ uploaded_files' = <<>>
    /\ uploaded_zip' = NoZip
    /\ UNCHANGED << session, session_at_click, selection_type, target_kb >>

\* Every step the script takes by itself once the button was pressed.
Step ==
    \/ process_files_item
    \/ process_files_return
    \/ process_zip_enter
    \/ process_zip_extract
    \/ process_zip_walk
    \/ process_zip_item
    \/ process_zip_exit
    \/ process_zip_return
    \/ compress_image_iter
    \/ compress_image_exhausted
    \/ compress_image_return
    \/ display_results

Click == main_click(Sources, ZipMembers)

Next == Click \/ Step

(***************************************************************************)
(* create_download_zip and the download names as functions of the result   *)
(* list alone: display_results applied to any list of results, also of     *)
(* names the uploaders of main would not let through.                      *)
(***************************************************************************)
BundleResult(name, q) ==
    << name, [pix |-> "small", mode |-> "RGB", quality |-> q], 50000,
       EncodedLen("small", q) >>

BundleResults ==
    { BundleResult(<<"photo", ".", "v2", ".", "png">>, 90),
      BundleResult(<<"a", ".", "b", ".", "png">>, 85),
      BundleResult(<<"a", ".", "png">>, 80),
      BundleResult(<<"a", ".", "jpg">>, 75),
      BundleResult(<<"b", ".", "png">>, 70),
      BundleResult(<<"noext">>, 65),
      BundleResult(<<".", "png">>, 60) }

InitBundle ==
    /\ pc = "rendered"
    /\ session \in { Some(rs) : rs \in SeqUpTo(BundleResults, MaxFiles) }
    /\ session_at_click = None
    /\ selection_type = "Files"
    /\ uploaded_files = <<>>
    /\ uploaded_zip = NoZip
    /\ target_kb = 45
    /\ compressed_files = <<>>
    /\ image_files = <<>>
    /\ i = 0
    /\ img = NoImage
    /\ temp_dir = "none"
    /\ temp_files = {}
    /\ quality = 0
    /\ buffer = NoBuffer
    /\ size_kb = 0
    /\ returned = NoReturn
    /\ tried = <<>>
    /\ opened = <<>>
    /\ calls = <<>>
    /\ errors = <<>>
    /\ zip_data = <<>>
    /\ downloads = <<>>

NextBundle == display_results

SpecBundle == InitBundle /\ [][NextBundle]_vars

\* One press of the button.
Spec == Init /\ [][Next]_vars

\* The script is a single thread that runs to completion.
SpecLive == Init /\ [][Next]_vars /\ WF_vars(Step)

ClickSmall == main_click(RerunSources, RerunSources)

NextRerun == ClickSmall \/ Step \/ rerun

\* Any number of presses, over the smaller input domain.
SpecRerun == Init /\ [][NextRerun]_vars

(***************************************************************************)
(*                              PROPERTIES                                 *)
(*                                                                         *)
(* The definitions below state the claims; they are written from the       *)
(* claims' words and use none of the operators the actions are built from  *)
(* other than the encoder's output (save, EncodedLen).                     *)
(***************************************************************************)

\* The descending scan 90, 85, ..., 15.
Scan == [k \in 1..16 |-> 95 - 5 * k]

ScanSet == { Scan[k] : k \in 1..16 }

\* Whether the image encoded at quality q is within the target.
Within(im, q, target) == EncodedLen(im.pix, q) <= 1024 * target

\* The first level of the scan that is within the target; 15 when none is.
FirstWithin(im, target) ==
    IF \E k \in 1..16 : Within(im, Scan[k], target)
    THEN Scan[CHOOSE k \in 1..16 :
                 /\ Within(im, Scan[k], target)
                 /\ \A j \in 1..(k - 1) : ~Within(im, Scan[j], target)]
    ELSE 15

\* The highest value of the scan set that is within the target; 15 when none is.
HighestWithin(im, target) ==
    LET ok == { q \in ScanSet : Within(im, q, target) }
    IN  IF ok = {} THEN 15 ELSE CHOOSE q \in ok : \A r \in ok : r <= q

\* compress_image has returned for the image img and the target target_kb.
HasReturned == returned # NoReturn

(***************************************************************************)
(* C1.  The bytes and the achieved size compress_image returns are those   *)
(* of the first level in the scan 90, 85, ..., 15 whose encoded size is    *)
(* at most the target (inclusive), and those of the quality-15 attempt     *)
(* when no level meets the target.                                         *)
(***************************************************************************)
C1_FirstHitOrFloor ==
    HasReturned =>
        /\ returned[1] = save(img, FirstWithin(img, target_kb))
        /\ returned[2] = EncodedLen(img.pix, FirstWithin(img, target_kb))

\* A call that found no level within the target and returned the
\* quality-15 encoding, which is over the target.
C1_Witness ==
    /\ HasReturned
    /\ returned[1].quality = 15
    /\ returned[2] > 1024 * target_kb

(***************************************************************************)
(* C2.  The quality compress_image returns is the highest value of         *)
(* {90, 85, ..., 15} whose encoded size is at most the target, or 15 if    *)
(* none qualifies; it is a member of that set and is the quality the       *)
(* returned bytes were encoded at.                                         *)
(***************************************************************************)
C2_ReturnedQuality ==
    HasReturned =>
        /\ returned[3] = HighestWithin(img, target_kb)
        /\ returned[3] \in ScanSet
        /\ returned[3] = returned[1].quality

(***************************************************************************)
(* C3.  The list a batch returns is the subsequence of its input items     *)
(* whose decode, normalization and encode all succeeded, one result per    *)
(* such item, in input order.                                              *)
(***************************************************************************)
Succeeds(s) == s.decodes /\ s.encodes

\* What identifies the item a result was made from: its name and pixels.
ItemIds(items) == [k \in DOMAIN items |-> << items[k].name, items[k].pix >>]
ResultIds(results) == [k \in DOMAIN results |-> << results[k][1], results[k][2].pix >>]

BatchOver == pc \in {"zip_return", "rendered", "done"}

C3_ExactlyTheSuccessful ==
    /\ BatchOver =>
           ResultIds(compressed_files) = ItemIds(SelectSeq(caller_items, Succeeds))
    /\ pc \in {"files_loop", "zip_loop"} =>
           ResultIds(compressed_files) =
               ItemIds(SelectSeq(SubSeq(caller_items, 1, i), Succeeds))

\* Three uploads, the second corrupted: results for the first and the third.
C3_Witness ==
    /\ pc = "done"
    /\ selection_type = "Files"
    /\ Len(uploaded_files) = 3
    /\ Succeeds(uploaded_files[1])
    /\ ~uploaded_files[2].decodes
    /\ Succeeds(uploaded_files[3])
    /\ uploaded_files[1] # uploaded_files[3]
    /\ Len(compressed_files) = 2
    /\ session = Some(compressed_files)

(***************************************************************************)
(* C4.  Every bundle entry and every per-item download is named            *)
(* 'compressed_' + base + '.webp', base being the part of the result's     *)
(* name before its first '.', the whole name when it has no dot.           *)
(***************************************************************************)
Dots(name) == { k \in DOMAIN name : name[k] = "." }

BeforeFirstDot(name) ==
    IF Dots(name) = {} THEN name
    ELSE SubSeq(name, 1, (CHOOSE k \in Dots(name) : \A j \in Dots(name) : k <= j) - 1)

Displayed == pc = "done" /\ Truthy(session)

C4_EntryNames ==
    Displayed =>
        /\ Len(zip_data) = Len(session.files)
        /\ Len(downloads) = Len(session.files)
        /\ \A k \in DOMAIN session.files :
               /\ zip_data[k].name =
                      << "compressed_" >> \o BeforeFirstDot(session.files[k][1])
                          \o << ".webp" >>
               /\ downloads[k] = zip_data[k].name

\* photo.v2.png packed as compressed_photo.webp, next to a name without a dot.
C4_Witness ==
    /\ Displayed
    /\ Len(session.files) = 2
    /\ session.files[1][1] = << "photo", ".", "v2", ".", "png" >>
    /\ zip_data[1].name = << "compressed_", "photo", ".webp" >>
    /\ session.files[2][1] = << "noext" >>
    /\ zip_data[2].name = << "compressed_", "noext", ".webp" >>

(***************************************************************************)
(* C5.  Reading back the bundle made from N results gives exactly N        *)
(* entries, and the payload of the i-th entry is the encoded bytes of the  *)
(* i-th result, also when several names share a base name.                 *)
(***************************************************************************)
\* ZipFile.infolist() with ZipFile.read(info): the entries and their payloads.
Unpacked(zip) == [k \in DOMAIN zip |-> inflate(zip[k].stored)]

C5_RoundTrip ==
    Displayed =>
        /\ Len(Unpacked(zip_data)) = Len(session.files)
        /\ \A k \in DOMAIN session.files :
               Unpacked(zip_data)[k] = session.files[k][2]

\* Three results, the first and the third sharing the base name a.
C5_Witness ==
    /\ Displayed
    /\ Len(session.files) = 3
    /\ session.files[1][1] = << "a", ".", "png" >>
    /\ session.files[3][1] = << "a", ".", "jpg" >>
    /\ Len(zip_data) = 3
    /\ Unpacked(zip_data)[1] # Unpacked(zip_data)[3]

(***************************************************************************)
(* C6, as claimed.  No two entries of a bundle have the same entry name.   *)
(***************************************************************************)
C6_NoTwoEntriesShareAName ==
    Displayed =>
        \A j, k \in DOMAIN zip_data :
            j # k => zip_data[j].name # zip_data[k].name

\* ZipFile.read(name): the payload of the last entry written under the name.
ReadByName(zip, name) ==
    LET at == { k \in DOMAIN zip : zip[k].name = name }
    IN  inflate(zip[CHOOSE k \in at : \A j \in at : j <= k].stored)

(***************************************************************************)
(* C6, amended.  A bundle holds one entry per result, in result order, so  *)
(* results that share a base name give entries with the same entry name;   *)
(* reading that name from the bundle yields the bytes of the later         *)
(* result.                                                                 *)
(***************************************************************************)
C6_LaterResultWins ==
    Displayed =>
        /\ Len(zip_data) = Len(session.files)
        /\ \A k \in DOMAIN session.files :
               LET same == { j \in DOMAIN session.files :
                               BeforeFirstDot(session.files[j][1]) =
                                   BeforeFirstDot(session.files[k][1]) }
                   last == CHOOSE j \in same : \A m \in same : m <= j
               IN  /\ \A j \in same : zip_data[j].name = zip_data[k].name
                   /\ ReadByName(zip_data, zip_data[k].name) = session.files[last][2]

\* a.png and a.jpg in one bundle: two entries named compressed_a.webp.
C6_Witness ==
    /\ Displayed
    /\ Len(session.files) = 2
    /\ session.files[1][1] = << "a", ".", "png" >>
    /\ session.files[2][1] = << "a", ".", "jpg" >>
    /\ zip_data[1].name = zip_data[2].name
    /\ ReadByName(zip_data, zip_data[1].name) = session.files[2][2]
    /\ session.files[1][2] # session.files[2][2]

(***************************************************************************)
(* C7.  Whenever process_zip has finished, by returning or by raising,     *)
(* the temporary directory and everything in it is gone.                   *)
(***************************************************************************)
ProcessZipFinished ==
    /\ selection_type = "ZIP"
    /\ uploaded_zip.present
    /\ pc \in {"zip_return", "raised", "rendered", "done"}

C7_TempDirRemoved ==
    ProcessZipFinished => temp_dir = "removed" /\ temp_files = {}

\* An invalid archive: process_zip raised after the directory was created.
C7_Witness ==
    /\ ProcessZipFinished
    /\ pc = "raised"
    /\ temp_dir = "removed"

(***************************************************************************)
(* C8.  compress_image is never called on an image whose mode carries an   *)
(* alpha channel.                                                          *)
(***************************************************************************)
\* The PIL modes with an alpha band.
AlphaModes == {"RGBA", "LA", "PA", "RGBa", "La"}

C8_NoAlphaAtEncoder ==
    \A k \in DOMAIN calls : calls[k] \notin AlphaModes

(***************************************************************************)
(* C9.  On an archive that is no valid container process_zip fails as a    *)
(* whole: it raises, no member is decoded or encoded, no list is returned  *)
(* and the stored batch result is left as it was.                          *)
(***************************************************************************)
InvalidArchiveRun ==
    /\ selection_type = "ZIP"
    /\ uploaded_zip.present
    /\ ~uploaded_zip.valid
    /\ pc # "idle"

C9_InvalidArchiveIsFatal ==
    InvalidArchiveRun =>
        /\ pc \in {"zip_enter", "zip_extract", "raised"}
        /\ opened = <<>>
        /\ calls = <<>>
        /\ tried = <<>>
        /\ compressed_files = <<>>
        /\ session = session_at_click

\* The run has raised while the session holds the results of an earlier run.
C9_Witness ==
    /\ InvalidArchiveRun
    /\ pc = "raised"
    /\ Truthy(session)
    /\ session = session_at_click

(***************************************************************************)
(* C10.  compress_image encodes at most 16 times, at the qualities of a    *)
(* prefix of 90, 85, ..., 15; a batch attempts each item once, in order,   *)
(* and every run that was started ends.                                    *)
(***************************************************************************)
C10_Bounded ==
    /\ Len(tried) <= 16
    /\ tried = SubSeq(Scan, 1, Len(tried))
    /\ opened = [k \in 1..Len(opened) |-> k - 1]
    /\ Len(opened) <= Len(caller_items)
    /\ BatchOver => Len(opened) = Len(caller_items)

C10_BoundedAndTerminates ==
    /\ []C10_Bounded
    /\ (pc # "idle") ~> (pc \in {"done", "raised"})

\* A call that went through all 16 levels, in a batch with a failing item.
C10_Witness ==
    /\ pc = "compress_ret"
    /\ Len(tried) = 16
    /\ tried[16] = 15
    /\ errors # <<>>

=============================================================================
